---- MODULE Spec2Model ----
(***************************************************************************)
(* Model of pyavd/cli/build.py: the two-phase build of an AVD fabric on a  *)
(* ProcessPoolExecutor.  The coordinator (build) loads the inventory,      *)
(* computes the fabric facts, fans out build_structured_config, collects   *)
(* every result, fans out build_designed_config and writes each result to  *)
(* <hostname>.cfg as it arrives.  Worker processes run the two task        *)
(* functions concurrently with the coordinator.                            *)
(***************************************************************************)
EXTENDS Integers, Sequences, FiniteSets, TLC

(* ------------------------------ bounds --------------------------------- *)
MaxHosts == 2      \* device hosts in the inventory (besides the controller)
MaxWorkers == 2    \* largest --max-workers value explored
MaxErrors == 2     \* validation error records one validator may return
MaxRuns == 2       \* consecutive invocations of build() on the same inputs

(* ------------------------------ inputs --------------------------------- *)
ExcludedHost == "cvp"

DeviceNames == <<"leaf1", "leaf2", "leaf3", "leaf4">>

Devices == {DeviceNames[i] : i \in 1..MaxHosts}

Stages == {1, 2}

Hosts == Devices \cup {ExcludedHost}

TaskIds == Stages \X Hosts

\* The variables the variable manager resolves for one host.  The opaque
\* validators and generators below read them.
HostVarsOf(h) ==
    {[inventory_hostname |-> h, input_errors |-> 0, design_errors |-> 0],
     [inventory_hostname |-> h, input_errors |-> MaxErrors, design_errors |-> 0],
     [inventory_hostname |-> h, input_errors |-> 0, design_errors |-> MaxErrors]}

\* Inventories: the first k device names, with or without the controller.
Inventories ==
    {pre \o SubSeq(DeviceNames, 1, k) :
        pre \in {<<>>, <<ExcludedHost>>}, k \in 0..MaxHosts}

(* --------------------------- ordered dicts ----------------------------- *)
\* A Python dict: a sequence of [k, v] entries in insertion order.
Keys(d) == {d[i].k : i \in 1..Len(d)}

Get(d, key) == d[CHOOSE i \in 1..Len(d) : d[i].k = key].v

Put(d, key, val) ==
    IF key \in Keys(d)
    THEN [i \in 1..Len(d) |-> IF d[i].k = key THEN [k |-> key, v |-> val] ELSE d[i]]
    ELSE Append(d, [k |-> key, v |-> val])

(* ----------------------- external collaborators ------------------------ *)
validate_inputs(inputs) ==
    [failed |-> inputs.input_errors > 0,
     validation_errors |->
        [i \in 1..inputs.input_errors |->
            [host |-> inputs.inventory_hostname, check |-> "inputs", n |-> i]]]

get_avd_facts(hostvars) == [avd_switch_facts |-> Keys(hostvars)]

get_device_structured_config(hostname, inputs, facts) ==
    [hostname |-> hostname,
     peers |-> facts.avd_switch_facts \ {hostname},
     design_errors |-> inputs.design_errors]

validate_structured_config(structured_config) ==
    [failed |-> structured_config.design_errors > 0,
     validation_errors |->
        [i \in 1..structured_config.design_errors |->
            [host |-> structured_config.hostname, check |-> "structured_config", n |-> i]]]

get_device_config(structured_config) ==
    <<"hostname " \o structured_config.hostname, structured_config.peers>>

(* ------------------------------- state --------------------------------- *)
VARIABLES
    inventory,          \* inventory.hosts, in inventory order
    source_vars,        \* what variable_manager.get_vars returns per host
    dir_exists,         \* intended_configs_path exists
    files,              \* file name -> content, the output directory
    max_workers,        \* the pool size of this run
    run,                \* number of the current invocation of build()
    pc,                 \* the coordinator's position in build()
    all_hostvars,       \* dict hostname -> hostvars (lines 47-52)
    avd_facts,          \* <<>> or <<facts>> (line 56)
    facts_calls,        \* arguments of every get_avd_facts call of this run
    futures,            \* the list of futures of the current phase
    fut,                \* every task of this run: state, arguments, result
    queue,              \* the pool's pending work items, in submission order
    ready,              \* futures as_completed will yield next, in order
    waiting,            \* as_completed has its waiter installed
    yielded,            \* futures as_completed has yielded in this phase
    completed,          \* finished futures of the list that the loop has yet to
                        \* retrieve, in the order they finished; emptied when
                        \* the loop is abandoned
    structured_configs, \* dict hostname -> structured config (line 59)
    cur,                \* <<>> or <<hostname, designed_config>> (line 76)
    written,            \* hostname -> content written by this run
    stdout,             \* lines printed by the workers in this run
    exc,                \* "" or the exception propagating out of build()
    exit_code,          \* -1 while running, else the process exit status
    prev                \* <<>> or <<outcome of the previous run>>

vars == <<inventory, source_vars, dir_exists, files, max_workers, run, pc,
          all_hostvars, avd_facts, facts_calls, futures, fut, queue, ready,
          waiting, yielded, completed, structured_configs, cur,
          written, stdout, exc, exit_code, prev>>

inputVars == <<inventory, source_vars, dir_exists>>

NoFut == [st |-> "none", args |-> <<>>, calls |-> {}, result |-> <<>>, exc |-> ""]

EmptyMap == [x \in {} |-> <<>>]

Running == {t \in TaskIds : fut[t].st = "running"}

Init ==
    /\ inventory \in Inventories
    /\ source_vars \in
         {f \in [Hosts -> UNION {HostVarsOf(h) : h \in Hosts}] :
            \A h \in Hosts : f[h] \in HostVarsOf(h)}
    /\ \A h \in Hosts :
         (h = ExcludedHost \/ \A i \in 1..Len(inventory) : inventory[i] # h)
            => source_vars[h] = [inventory_hostname |-> h, input_errors |-> 0,
                                 design_errors |-> 0]
    /\ dir_exists \in BOOLEAN
    /\ files = EmptyMap
    /\ max_workers \in 1..MaxWorkers
    /\ run = 1
    /\ pc = "load"
    /\ all_hostvars = <<>>
    /\ avd_facts = <<>>
    /\ facts_calls = <<>>
    /\ futures = <<>>
    /\ fut = [t \in TaskIds |-> NoFut]
    /\ queue = <<>>
    /\ ready = <<>>
    /\ waiting = FALSE
    /\ yielded = {}
    /\ completed = <<>>
    /\ structured_configs = <<>>
    /\ cur = <<>>
    /\ written = EmptyMap
    /\ stdout = <<>>
    /\ exc = ""
    /\ exit_code = -1
    /\ prev = <<>>

(* --------------------------- task functions ---------------------------- *)
\* What one call of a task function does: the records it prints, the
\* collaborators it invokes, and the exception it raises ("" when none) or
\* the value it returns.

\* Variant: the validation errors are printed but nothing is raised.
build_structured_config_no_raise(hostname, inputs, facts) ==
    [prints |-> validate_inputs(inputs).validation_errors,
     calls |-> {"validate_inputs", "get_device_structured_config"},
     exc |-> "",
     value |-> <<hostname, get_device_structured_config(hostname, inputs, facts)>>]

\* Variant: the task raises as soon as it has printed the first error.
build_structured_config_first_error(hostname, inputs, facts) ==
    LET results == validate_inputs(inputs) IN
    IF results.failed
    THEN [prints |-> SubSeq(results.validation_errors, 1, 1),
          calls |-> {"validate_inputs"},
          exc |-> hostname \o " validate_inputs failed",
          value |-> <<>>]
    ELSE [prints |-> <<>>,
          calls |-> {"validate_inputs", "get_device_structured_config"},
          exc |-> "",
          value |-> <<hostname, get_device_structured_config(hostname, inputs, facts)>>]

build_structured_config(hostname, inputs, facts) ==
    LET results == validate_inputs(inputs) IN
    IF results.failed
    THEN [prints |-> results.validation_errors,
          calls |-> {"validate_inputs"},
          exc |-> hostname \o " validate_inputs failed",
          value |-> <<>>]
    ELSE [prints |-> <<>>,
          calls |-> {"validate_inputs", "get_device_structured_config"},
          exc |-> "",
          value |-> <<hostname, get_device_structured_config(hostname, inputs, facts)>>]

\* Variant: the errors are printed but the configuration is rendered anyway.
build_designed_config_no_raise(hostname, structured_config) ==
    [prints |-> validate_structured_config(structured_config).validation_errors,
     calls |-> {"validate_structured_config", "get_device_config"},
     exc |-> "",
     value |-> <<hostname, get_device_config(structured_config)>>]

build_designed_config(hostname, structured_config) ==
    LET results == validate_structured_config(structured_config) IN
    IF results.failed
    THEN [prints |-> results.validation_errors,
          calls |-> {"validate_structured_config"},
          exc |-> hostname \o " validate_structured_config failed",
          value |-> <<>>]
    ELSE [prints |-> <<>>,
          calls |-> {"validate_structured_config", "get_device_config"},
          exc |-> "",
          value |-> <<hostname, get_device_config(structured_config)>>]

\* The call a submitted work item makes in its worker process.
TaskCall(t) ==
    LET a == fut[t].args IN
    IF t[1] = 1 THEN build_structured_config(a[1], a[2], a[3])
    ELSE build_designed_config(a[1], a[2])

(* ------------------------------ the pool ------------------------------- *)
Range(s) == {s[i] : i \in 1..Len(s)}

Perms(S) ==
    {p \in [1..Cardinality(S) -> S] : \A i, j \in 1..Cardinality(S) : p[i] = p[j] => i = j}

Finished(t) == fut[t].st \in {"ok", "failed"}

\* The sequence s with the element x left out.
Without(s, x) == SelectSeq(s, LAMBDA y : y # x)

\* pool.submit of the work items ts, in order.
Submit(ts, argsOf) ==
    /\ fut' = [t \in TaskIds |->
                 IF t \in Range(ts)
                 THEN [NoFut EXCEPT !.st = "queued", !.args = argsOf[t]]
                 ELSE fut[t]]
    /\ queue' = queue \o ts
    /\ futures' = ts
    /\ completed' = <<>>

\* Variant: a pending work item is started whether or not a worker is free.
WorkerFreeAlways == TRUE

\* A free worker takes the oldest pending work item.
WorkerFree == Cardinality(Running) < max_workers

StartTask ==
    /\ queue # <<>>
    /\ WorkerFree
    /\ fut' = [fut EXCEPT ![Head(queue)].st = "running"]
    /\ queue' = Tail(queue)
    /\ UNCHANGED <<inputVars, completed, files, max_workers, run, pc, all_hostvars, avd_facts,
                   facts_calls, futures, ready, waiting, yielded,
                   structured_configs, cur, written, stdout, exc, exit_code, prev>>

\* The worker runs the task function to its end: it prints the validation
\* errors (lines 22-23, 36-37) and raises, or it returns; the future is set
\* and the waiter of a running as_completed is notified.
FinishTask(t) ==
    /\ fut[t].st = "running"
    /\ stdout' = stdout \o TaskCall(t).prints
    /\ fut' = [fut EXCEPT ![t].st = IF TaskCall(t).exc # "" THEN "failed" ELSE "ok",
                          ![t].calls = TaskCall(t).calls,
                          ![t].exc = TaskCall(t).exc,
                          ![t].result = TaskCall(t).value]
    /\ ready' = IF waiting /\ t \in Range(futures) THEN Append(ready, t) ELSE ready
    /\ completed' = IF t \in Range(futures) /\ pc \notin {"shutdown", "done"}
                    THEN Append(completed, t) ELSE completed
    /\ UNCHANGED <<inputVars, files, max_workers, run, pc, all_hostvars, avd_facts,
                   facts_calls, futures, queue, waiting, yielded,
                   structured_configs, cur, written, exc, exit_code, prev>>

(* --------------------------- the coordinator --------------------------- *)
\* Variant: the exception is recorded and the loop goes on.
RaiseAndContinue(e) ==
    /\ exc' = e
    /\ UNCHANGED <<waiting, pc>>

\* The first exception that escapes a statement of build() leaves the
\* with-block: as_completed drops its waiter and the pool is shut down.
Raise(e) ==
    /\ exc' = e
    /\ waiting' = FALSE
    /\ pc' = "shutdown"

\* Variant: a failed task is not re-raised, an empty config stands in.
FutureResultDefault(f) ==
    [raised |-> FALSE, exc |-> "",
     value |-> IF f.st = "failed"
               THEN <<f.args[1], [hostname |-> f.args[1], peers |-> {}, design_errors |-> 0]>>
               ELSE f.result]

\* future.result(): the task's return value, or its exception re-raised.
FutureResult(f) ==
    [raised |-> f.st = "failed", exc |-> f.exc, value |-> f.result]

\* Variant: no inventory entry is skipped.
IsExcludedNever(hostname) == FALSE

\* Line 50: the controller entry of the inventory is skipped.
IsExcluded(hostname) == hostname = ExcludedHost

\* Lines 44-52: resolve the inventory into all_hostvars.
LoadInventory ==
    /\ pc = "load"
    /\ LET hosts == SelectSeq(inventory, LAMBDA h : ~IsExcluded(h)) IN
       all_hostvars' = [i \in 1..Len(hosts) |-> [k |-> hosts[i], v |-> source_vars[hosts[i]]]]
    /\ pc' = "facts"
    /\ UNCHANGED <<inputVars, completed, files, max_workers, run, avd_facts, facts_calls,
                   futures, fut, queue, ready, waiting, yielded,
                   structured_configs, cur, written, stdout, exc, exit_code, prev>>

\* Lines 54-56: the pool is created and the fabric facts are computed.
GenerateFacts ==
    /\ pc = "facts"
    /\ avd_facts' = <<get_avd_facts(all_hostvars)>>
    /\ facts_calls' = Append(facts_calls, all_hostvars)
    /\ pc' = "submit1"
    /\ UNCHANGED <<inputVars, completed, files, max_workers, run, all_hostvars, futures, fut,
                   queue, ready, waiting, yielded, structured_configs, cur,
                   written, stdout, exc, exit_code, prev>>

\* Variant: each task is given facts computed from its own host only.
Stage1ArgsOwnFacts(t) ==
    <<t[2], Get(all_hostvars, t[2]),
      get_avd_facts(<<[k |-> t[2], v |-> Get(all_hostvars, t[2])]>>)>>

\* Variant: every task is given the host variables of the first entry.
Stage1ArgsFirstHost(t) == <<t[2], all_hostvars[1].v, avd_facts[1]>>

\* Lines 59-63: one build_structured_config task per entry of all_hostvars.
Stage1Args(t) == <<t[2], Get(all_hostvars, t[2]), avd_facts[1]>>

SubmitStage1 ==
    /\ pc = "submit1"
    /\ structured_configs' = <<>>
    /\ LET ts == [i \in 1..Len(all_hostvars) |-> <<1, all_hostvars[i].k>>] IN
       Submit(ts, [t \in Range(ts) |-> Stage1Args(t)])
    /\ pc' = "iter1"
    /\ UNCHANGED <<inputVars, files, max_workers, run, all_hostvars, avd_facts,
                   facts_calls, ready, waiting, yielded, cur, written, stdout,
                   exc, exit_code, prev>>

\* Lines 64 and 75: as_completed(futures) installs its waiter; the futures
\* that are already finished come first, in the order of a set.
AsCompleted(next) ==
    /\ ready' \in Perms({t \in Range(futures) : Finished(t)})
    /\ waiting' = TRUE
    /\ yielded' = {}
    /\ pc' = next
    /\ UNCHANGED <<inputVars, completed, files, max_workers, run, all_hostvars, avd_facts,
                   facts_calls, futures, fut, queue, structured_configs, cur,
                   written, stdout, exc, exit_code, prev>>

AsCompleted1 == pc = "iter1" /\ AsCompleted("collect1")

AsCompleted2 == pc = "iter2" /\ AsCompleted("collect2")

\* Variant: as_completed yields the future that became ready last.
NextYieldedNewest == ready[Len(ready)]

\* The future as_completed yields next: the oldest entry of its queue.
NextYielded == Head(ready)

\* Variant: the loop never learns that every future has been yielded.
ExhaustedNever == FALSE

\* Variant: the loop is left after the first future that was yielded.
ExhaustedAfterFirst == yielded # {} \/ futures = <<>>

\* as_completed is exhausted once it has yielded every future of the list.
Exhausted == yielded = Range(futures)

\* Lines 64-66: the barrier.  Each result is stored under its hostname; a
\* failed future re-raises its exception in the coordinator.
Collect1 ==
    /\ pc = "collect1"
    /\ ~Exhausted
    /\ ready # <<>>
    /\ LET t == NextYielded IN
        /\ ready' = Tail(ready)
        /\ yielded' = yielded \cup {t}
        /\ IF FutureResult(fut[t]).raised
           THEN /\ Raise(FutureResult(fut[t]).exc)
                /\ completed' = <<>>
                /\ UNCHANGED structured_configs
           ELSE /\ structured_configs' =
                      Put(structured_configs, FutureResult(fut[t]).value[1],
                          FutureResult(fut[t]).value[2])
                /\ completed' = Without(completed, t)
                /\ UNCHANGED <<exc, waiting, pc>>
    /\ UNCHANGED <<inputVars, files, max_workers, run, all_hostvars, avd_facts,
                   facts_calls, futures, fut, queue, cur, written, stdout,
                   exit_code, prev>>

\* Variant: the structured config is taken by the host's position in
\* all_hostvars instead of by its hostname.
Stage2ArgsByPosition(t) ==
    <<t[2],
      structured_configs[CHOOSE i \in 1..Len(all_hostvars) : all_hostvars[i].k = t[2]].v>>

\* Lines 69-72: one build_designed_config task per collected structured
\* config, submitted when the first loop is over.
Stage2Args(t) == <<t[2], Get(structured_configs, t[2])>>

SubmitStage2 ==
    /\ pc = "collect1"
    /\ Exhausted
    /\ LET ts == [i \in 1..Len(structured_configs) |-> <<2, structured_configs[i].k>>] IN
       Submit(ts, [t \in Range(ts) |-> Stage2Args(t)])
    /\ waiting' = FALSE
    /\ ready' = <<>>
    /\ pc' = "iter2"
    /\ UNCHANGED <<inputVars, files, max_workers, run, all_hostvars, avd_facts,
                   facts_calls, yielded, structured_configs, cur, written,
                   stdout, exc, exit_code, prev>>

\* Lines 75-76: the next completed designed config is retrieved.
Collect2 ==
    /\ pc = "collect2"
    /\ ~Exhausted
    /\ ready # <<>>
    /\ LET t == NextYielded IN
        /\ ready' = Tail(ready)
        /\ yielded' = yielded \cup {t}
        /\ IF FutureResult(fut[t]).raised
           THEN /\ Raise(FutureResult(fut[t]).exc)
                /\ completed' = <<>>
                /\ UNCHANGED cur
           ELSE /\ cur' = FutureResult(fut[t]).value
                /\ completed' = Without(completed, t)
                /\ pc' = "write"
                /\ UNCHANGED <<exc, waiting>>
    /\ UNCHANGED <<inputVars, files, max_workers, run, all_hostvars, avd_facts,
                   facts_calls, futures, fut, queue, structured_configs,
                   written, stdout, exit_code, prev>>

\* Lines 78-79: open(<dir>/<hostname>.cfg, "w") and write the config.  open
\* raises FileNotFoundError when the directory does not exist.
ConfigFile(hostname) == hostname \o ".cfg"

\* Variant: the file is opened in append mode.
AppendFile(fs, name, text) ==
    (name :> ((IF name \in DOMAIN fs THEN fs[name] ELSE <<>>) \o text)) @@ fs

\* open(name, "w") truncates or creates the file; f.write stores the text.
WriteFile(fs, name, text) == (name :> text) @@ fs

\* Variant: a failed open() is swallowed and the loop goes on.
WriteConfigIgnoreError ==
    /\ pc = "write"
    /\ IF dir_exists
       THEN /\ files' = WriteFile(files, ConfigFile(cur[1]), cur[2])
            /\ written' = (cur[1] :> cur[2]) @@ written
       ELSE UNCHANGED <<files, written>>
    /\ pc' = "collect2"
    /\ cur' = <<>>
    /\ UNCHANGED <<inputVars, exc, waiting, completed, max_workers, run, all_hostvars,
                   avd_facts, facts_calls, futures, fut, queue, ready, yielded,
                   structured_configs, stdout, exit_code, prev>>

WriteConfig ==
    /\ pc = "write"
    /\ IF dir_exists
       THEN /\ files' = WriteFile(files, ConfigFile(cur[1]), cur[2])
            /\ written' = (cur[1] :> cur[2]) @@ written
            /\ pc' = "collect2"
            /\ UNCHANGED <<exc, waiting, completed>>
       ELSE /\ Raise("FileNotFoundError")
            /\ completed' = <<>>
            /\ UNCHANGED <<files, written>>
    /\ cur' = <<>>
    /\ UNCHANGED <<inputVars, max_workers, run, all_hostvars, avd_facts,
                   facts_calls, futures, fut, queue, ready, yielded,
                   structured_configs, stdout, exit_code, prev>>

\* The second loop is over: the with-block is left normally.
Finish ==
    /\ pc = "collect2"
    /\ Exhausted
    /\ waiting' = FALSE
    /\ pc' = "shutdown"
    /\ UNCHANGED <<inputVars, completed, files, max_workers, run, all_hostvars, avd_facts,
                   facts_calls, futures, fut, queue, ready, yielded,
                   structured_configs, cur, written, stdout, exc, exit_code, prev>>

\* Variant: once an exception propagates, the running work items are given up.
PoolIdleUnlessFailed == queue = <<>> /\ (Running = {} \/ exc # "")

\* Variant: the pool is shut down without waiting for its work items.
PoolIdleNoWait == TRUE

\* Line 54, leaving the with-block: pool.shutdown(wait=True) returns when
\* no work item is pending or running; then build() returns or the
\* exception ends the process.
PoolIdle == queue = <<>> /\ Running = {}

\* Variant: the exception is caught and the process ends normally.
ExitStatusAlwaysZero(e) == 0

\* Lines 94-98: build() is called without a handler, so an exception that
\* escapes it ends the process with a non-zero status.
ExitStatus(e) == IF e = "" THEN 0 ELSE 1

Shutdown ==
    /\ pc = "shutdown"
    /\ PoolIdle
    /\ pc' = "done"
    /\ exit_code' = ExitStatus(exc)
    /\ UNCHANGED <<inputVars, completed, files, max_workers, run, all_hostvars, avd_facts,
                   facts_calls, futures, fut, queue, ready, waiting, yielded,
                   structured_configs, cur, written, stdout, exc, prev>>

\* Lines 82-98: the command is invoked again on the same inventory and
\* output directory, with any pool size.
Outcome ==
    [max_workers |-> max_workers, exit_code |-> exit_code,
     written |-> written, files |-> files]

NextRun ==
    /\ pc = "done"
    /\ run < MaxRuns
    /\ prev' = <<Outcome>>
    /\ run' = run + 1
    /\ max_workers' \in 1..MaxWorkers
    /\ pc' = "load"
    /\ all_hostvars' = <<>>
    /\ avd_facts' = <<>>
    /\ facts_calls' = <<>>
    /\ futures' = <<>>
    /\ fut' = [t \in TaskIds |-> NoFut]
    /\ queue' = <<>>
    /\ ready' = <<>>
    /\ waiting' = FALSE
    /\ yielded' = {}
    /\ completed' = <<>>
    /\ structured_configs' = <<>>
    /\ cur' = <<>>
    /\ written' = EmptyMap
    /\ stdout' = <<>>
    /\ exc' = ""
    /\ exit_code' = -1
    /\ UNCHANGED <<inputVars, files>>

Next ==
    \/ LoadInventory
    \/ GenerateFacts
    \/ SubmitStage1
    \/ AsCompleted1
    \/ Collect1
    \/ SubmitStage2
    \/ AsCompleted2
    \/ Collect2
    \/ WriteConfig
    \/ Finish
    \/ Shutdown
    \/ NextRun
    \/ StartTask
    \/ \E t \in TaskIds : FinishTask(t)

Spec == Init /\ [][Next]_vars

\* One invocation of the program: the steps of Next but the re-invocation.
Build ==
    \/ LoadInventory
    \/ GenerateFacts
    \/ SubmitStage1
    \/ AsCompleted1
    \/ Collect1
    \/ SubmitStage2
    \/ AsCompleted2
    \/ Collect2
    \/ WriteConfig
    \/ Finish
    \/ Shutdown
    \/ StartTask
    \/ \E t \in TaskIds : FinishTask(t)

BuildSpec == Init /\ [][Build]_vars

\* The steps of the main process, which runs whenever it is not blocked.
Coordinator ==
    \/ LoadInventory
    \/ GenerateFacts
    \/ SubmitStage1
    \/ AsCompleted1
    \/ Collect1
    \/ SubmitStage2
    \/ AsCompleted2
    \/ Collect2
    \/ WriteConfig
    \/ Finish
    \/ Shutdown

\* One invocation with a main process that keeps running, workers that take
\* pending work items when free, and tasks that all return or raise.
FairBuildSpec ==
    /\ BuildSpec
    /\ WF_vars(Coordinator)
    /\ WF_vars(StartTask)
    /\ \A t \in TaskIds : WF_vars(FinishTask(t))

TypeOK ==
    /\ pc \in {"load", "facts", "submit1", "iter1", "collect1", "iter2",
               "collect2", "write", "shutdown", "done"}
    /\ max_workers \in 1..MaxWorkers
    /\ run \in 1..MaxRuns
    /\ Cardinality(Running) <= max_workers
    /\ exit_code \in {-1, 0, 1}

(* ------------------------------ properties ----------------------------- *)
\* The hosts of the inventory that are devices, read off the input.
DeviceHosts == Range(inventory) \ {ExcludedHost}

Submitted(t) == fut[t].st # "none"

Started(t) == fut[t].st \in {"running", "ok", "failed"}

\* C1: whenever a build_designed_config task has been submitted, the
\* build_structured_config task of every device host has completed and its
\* result has been collected into structured_configs.
C1_Barrier ==
    \A h \in Hosts :
        Submitted(<<2, h>>) =>
            \A g \in DeviceHosts :
                fut[<<1, g>>].st = "ok" /\ g \in Keys(structured_configs)

\* Stage 2 was submitted after the Stage 1 tasks completed out of
\* submission order.
C1_Witness ==
    /\ \E h \in Hosts : Submitted(<<2, h>>)
    /\ Len(all_hostvars) >= 2
    /\ Len(structured_configs) >= 2
    /\ structured_configs[1].k # all_hostvars[1].k

\* C2: build_designed_config for a host is started only after
\* build_structured_config for that host returned that host's structured
\* config, which is the one the Stage 2 task was given.
C2_CausalOrder ==
    \A h \in Hosts :
        Started(<<2, h>>) =>
            /\ fut[<<1, h>>].st = "ok"
            /\ fut[<<1, h>>].result[1] = h
            /\ fut[<<1, h>>].result[2].hostname = h
            /\ fut[<<2, h>>].args = <<h, fut[<<1, h>>].result[2]>>

C2_Witness ==
    /\ Cardinality(DeviceHosts) >= 2
    /\ \E h \in DeviceHosts : fut[<<2, h>>].st = "running"

\* C3: get_avd_facts is called at most once per run, and exactly once
\* before any Stage 1 task is submitted; its argument holds the variables of
\* exactly the device hosts; avd_facts keeps the value it returned and every
\* Stage 1 task was given that value.
C3_FactsOnce ==
    /\ Len(facts_calls) <= 1
    /\ pc \notin {"load", "facts"} => Len(facts_calls) = 1
    /\ Len(facts_calls) = 1 =>
        /\ {<<facts_calls[1][i].k, facts_calls[1][i].v>> : i \in 1..Len(facts_calls[1])}
              = {<<h, source_vars[h]>> : h \in DeviceHosts}
        /\ avd_facts = <<get_avd_facts(facts_calls[1])>>
    /\ \A h \in Hosts :
        Submitted(<<1, h>>) =>
            /\ Len(facts_calls) = 1
            /\ fut[<<1, h>>].args[3] = avd_facts[1]

C3_Witness ==
    /\ ExcludedHost \in Range(inventory)
    /\ Cardinality(DeviceHosts) >= 2
    /\ \A h \in DeviceHosts : fut[<<1, h>>].st = "ok"
    /\ pc = "done"

\* C4: once the input validation of some host has failed in its task, no
\* Stage 2 task is ever submitted (so get_device_config is never invoked),
\* no artifact is written for any host, and a run that ends ends failed.
C4_InputValidationAborts ==
    \A h \in DeviceHosts :
        (validate_inputs(source_vars[h]).failed /\ Started(<<1, h>>)) =>
            /\ \A g \in Hosts : ~Submitted(<<2, g>>)
            /\ \A t \in TaskIds : "get_device_config" \notin fut[t].calls
            /\ written = EmptyMap
            /\ pc = "done" => exit_code = 1

\* The run has ended; one host failed input validation, another host's
\* Stage 1 task succeeded.
C4_Witness ==
    /\ pc = "done"
    /\ \E h, g \in DeviceHosts :
        /\ validate_inputs(source_vars[h]).failed
        /\ fut[<<1, h>>].st = "failed"
        /\ fut[<<1, g>>].st = "ok"

\* The exception that left build() was raised by future.result().
TaskFailureRaised == exc \notin {"", "FileNotFoundError"}

\* The phase whose loop was running when build() was left.
FailedPhase == IF \E h \in Hosts : Submitted(<<2, h>>) THEN 2 ELSE 1

\* C5 as stated: after a result retrieval raised in a phase, no host whose
\* task of that phase completed successfully has an artifact.
C5_SuccessfulPeersDiscarded ==
    TaskFailureRaised =>
        \A h \in DeviceHosts :
            fut[<<FailedPhase, h>>].st = "ok" => h \notin DOMAIN written

\* C5 amended: after a result retrieval raised, nothing is persisted for a
\* host whose result had not been retrieved before: in Stage 1 no artifact
\* exists at all, in Stage 2 only hosts retrieved before the failure have
\* one, and from then on the run writes nothing more.
C5_UnretrievedDiscarded ==
    /\ [](TaskFailureRaised =>
            /\ FailedPhase = 1 => written = EmptyMap
            /\ \A h \in DOMAIN written :
                 <<2, h>> \in yielded /\ fut[<<2, h>>].st = "ok"
            /\ pc \in {"shutdown", "done"}
            /\ pc = "done" => exit_code = 1)
    /\ [][(TaskFailureRaised /\ run' = run) =>
            (written' = written /\ files' = files)]_vars

\* A Stage 2 retrieval raised after another host's artifact was written.
C5_Witness ==
    /\ TaskFailureRaised
    /\ FailedPhase = 2
    /\ written # EmptyMap
    /\ pc = "shutdown"

\* C6: the controller entry never gets a task or an artifact, and a run
\* that ends with no failed task and no failed write has written exactly
\* one artifact <hostname>.cfg per device host of the inventory.
C6_AllDevicesWritten ==
    /\ \A s \in Stages : ~Submitted(<<s, ExcludedHost>>)
    /\ ExcludedHost \notin DOMAIN written
    /\ (ExcludedHost \o ".cfg") \notin DOMAIN files
    /\ (pc = "done" /\ exc = "" /\ \A t \in TaskIds : fut[t].st # "failed") =>
        /\ DOMAIN written = DeviceHosts
        /\ DOMAIN files = {h \o ".cfg" : h \in DeviceHosts}

C6_Witness ==
    /\ pc = "done"
    /\ exc = ""
    /\ ExcludedHost \in Range(inventory)
    /\ Cardinality(DOMAIN written) >= 2

\* C7: a run that ends after some task failed validation (in either stage)
\* ends with a non-zero status, and a run that ends after writing every
\* device host's artifact ends with status 0.
C7_ExitStatus ==
    pc = "done" =>
        /\ exit_code \in {0, 1}
        /\ (\E t \in TaskIds : fut[t].st = "failed") => exit_code = 1
        /\ (\E h \in DeviceHosts :
                \/ validate_inputs(source_vars[h]).failed
                \/ source_vars[h].design_errors > 0) => exit_code = 1
        /\ DOMAIN written = DeviceHosts => exit_code = 0

\* A run ended failed because of a structured-config validation failure.
C7_Witness ==
    /\ pc = "done"
    /\ exit_code = 1
    /\ \E h \in DeviceHosts : fut[<<2, h>>].st = "failed"

\* C8 as stated: a run leaves the same artifacts as an earlier run of the
\* same inputs made with one worker.
C8_SameArtifactsAnyPool ==
    (pc = "done" /\ prev # <<>>) =>
        \A i \in 1..Len(prev) :
            prev[i].max_workers = 1 => written = prev[i].written

\* C8 amended: runs on the same inputs end with the same status whatever
\* the pool size; runs that end successfully leave identical artifacts; an
\* artifact written by two runs has the same content in both.
C8_SameArtifactsOnSuccess ==
    (pc = "done" /\ prev # <<>>) =>
        \A i \in 1..Len(prev) :
            /\ exit_code = prev[i].exit_code
            /\ exit_code = 0 => written = prev[i].written
            /\ \A h \in DOMAIN written \cap DOMAIN prev[i].written :
                 written[h] = prev[i].written[h]

\* A successful run with several workers follows one with a single worker.
C8_Witness ==
    /\ pc = "done"
    /\ exit_code = 0
    /\ prev # <<>>
    /\ prev[Len(prev)].max_workers = 1
    /\ max_workers > 1
    /\ Cardinality(DOMAIN written) >= 2

\* C9 as stated: the output directory after a second run equals the output
\* directory after the first.
C9_SecondRunSameFiles ==
    (pc = "done" /\ prev # <<>>) => files = prev[Len(prev)].files

\* C9 amended: a second run never changes or removes an artifact the first
\* run left, and after a successful first run the output directory is the
\* same after the second.
C9_SecondRunKeepsFiles ==
    (pc = "done" /\ prev # <<>>) =>
        LET p == prev[Len(prev)] IN
        /\ \A f \in DOMAIN p.files : f \in DOMAIN files /\ files[f] = p.files[f]
        /\ p.exit_code = 0 => files = p.files

\* The second of two successful runs has ended.
C9_Witness ==
    /\ pc = "done"
    /\ prev # <<>>
    /\ prev[Len(prev)].exit_code = 0
    /\ Cardinality(DOMAIN files) >= 2
    /\ DOMAIN written = DeviceHosts

\* C10 as stated: with valid inputs and no output directory, the run still
\* writes every device host's artifact and ends successfully.
C10_CreatesDestination ==
    (/\ pc = "done"
     /\ ~dir_exists
     /\ \A h \in DeviceHosts :
          source_vars[h].input_errors = 0 /\ source_vars[h].design_errors = 0) =>
        (exit_code = 0 /\ DOMAIN written = DeviceHosts)


\* C11: at most max_workers tasks execute at any moment, and every task
\* that was submitted and has not started is waiting in the pool's queue.
C11_BoundedWorkers ==
    /\ Cardinality(Running) <= max_workers
    /\ \A t \in TaskIds : fut[t].st = "queued" <=> t \in Range(queue)
    /\ Len(queue) = Cardinality(Range(queue))

\* Every worker is busy and a submitted task waits for one to be free.
C11_Witness ==
    /\ Cardinality(Running) = max_workers
    /\ queue # <<>>


\* C12: from the first result retrieval that raises to the end of the run,
\* the coordinator is leaving build(): it retrieves no further result,
\* submits no task, writes nothing, the failed task is not run again, and
\* the run ends failed as a whole.
C12_FailFast ==
    /\ [](TaskFailureRaised =>
            /\ pc \in {"shutdown", "done"}
            /\ pc = "done" => exit_code = 1)
    /\ [][(TaskFailureRaised /\ run' = run) =>
            /\ yielded' = yielded
            /\ exc' = exc
            /\ structured_configs' = structured_configs
            /\ written' = written
            /\ files' = files
            /\ {t \in TaskIds : fut'[t].st # "none"} = {t \in TaskIds : fut[t].st # "none"}
            /\ \A t \in TaskIds : fut[t].st = "failed" => fut'[t] = fut[t]]_vars

\* The run ended after a retrieval raised, and a peer of the failed task
\* that finished successfully was never retrieved.
C12_Witness ==
    /\ pc = "done"
    /\ TaskFailureRaised
    /\ \E t \in Range(futures) : fut[t].st = "ok" /\ t \notin yielded


(* C13: in Stage 2 the artifact of a host is written right after its result
   is retrieved and before another result is retrieved, and the results are
   retrieved in the order in which the tasks completed.  The second half
   fails: the results that are ready when as_completed is called are yielded
   in the order of a set. *)
C13_WritesInCompletionOrder ==
    [][(pc = "collect2" /\ pc' = "write") => cur'[1] = Head(completed)[2]]_vars

(* C13, amended: in Stage 2 every retrieved result is written before the
   next one is retrieved, so artifacts appear while other tasks still run;
   the results are written in the order as_completed yields them, and a task
   that finishes while the loop runs is yielded after everything that was
   ready before it. *)
C13_WritesInYieldOrder ==
    /\ [](pc \in {"collect2", "write"} =>
            LET retrieved == {t[2] : t \in {u \in yielded : fut[u].st = "ok"}} IN
            /\ pc = "collect2" => DOMAIN written = retrieved
            /\ pc = "write" => /\ cur[1] \in retrieved
                               /\ cur = fut[<<2, cur[1]>>].result
                               /\ DOMAIN written = retrieved \ {cur[1]}
            /\ \A h \in DOMAIN written : written[h] = fut[<<2, h>>].result[2])
    /\ [][/\ (pc = "collect2" /\ pc' = "write") =>
                /\ cur' = fut[Head(ready)].result
                /\ ready' = Tail(ready)
          /\ (pc \in {"collect2", "write"} /\ Len(ready') > Len(ready)) =>
                \E t \in Range(futures) \ Range(ready) :
                    /\ fut[t].st = "running"
                    /\ ready' = Append(ready, t)
                    /\ completed' = Append(completed, t)]_vars

C13_Witness ==
    /\ pc = "collect2"
    /\ written # EmptyMap
    /\ \E t \in Range(futures) : fut[t].st = "running"


(* C14: a submitted task is never cancelled: it stays pending until a worker
   takes it, runs to its end, and keeps its outcome; when a run is aborted
   the tasks still pending or running are carried through, and the run ends
   only when every submitted task has finished. *)
C14_NoCancellation ==
    /\ [](pc = "done" => \A t \in TaskIds : Submitted(t) => Finished(t))
    /\ [][run' = run =>
            \A t \in TaskIds :
                /\ fut[t].st = "queued" =>
                      /\ fut'[t].st \in {"queued", "running"}
                      /\ fut'[t].st = "queued" <=> t \in Range(queue')
                /\ fut[t].st = "running" => fut'[t].st \in {"running", "ok", "failed"}
                /\ Finished(t) => fut'[t] = fut[t]]_vars

\* The run was aborted while a peer task had not even been started.
C14_Witness ==
    /\ pc = "shutdown"
    /\ exc # ""
    /\ queue # <<>>


(* C15: nothing bounds the time a task may take.  While a submitted task has
   not finished the run is in no terminal state, whether or not another task
   has failed: a loop that has nothing ready to retrieve can take no step,
   and neither can the shutdown while a work item is pending or running. *)
C15_NoTimeout ==
    (\E t \in TaskIds : fut[t].st \in {"queued", "running"}) =>
        /\ pc # "done"
        /\ exit_code = -1
        /\ (pc \in {"collect1", "collect2"} /\ ready = <<>>) =>
              ~ENABLED (Collect1 \/ Collect2 \/ Finish)
        /\ pc = "shutdown" => ~ENABLED Shutdown

\* A task has failed and was retrieved while another one is still running.
C15_Witness ==
    /\ pc = "shutdown"
    /\ TaskFailureRaised
    /\ Running # {}


(* C16: for a host whose structured config fails validate_structured_config,
   the Stage 2 task fails without calling get_device_config, and no artifact
   is written for that host in the run. *)
C16_StructuredValidationFails ==
    \A h \in Hosts :
        LET t == <<2, h>> IN
        (Submitted(t) /\ validate_structured_config(fut[t].args[2]).failed) =>
            /\ h \notin DOMAIN written
            /\ ConfigFile(h) \notin DOMAIN files
            /\ Finished(t) =>
                  /\ fut[t].st = "failed"
                  /\ fut[t].exc = h \o " validate_structured_config failed"
                  /\ fut[t].calls = {"validate_structured_config"}
                  /\ fut[t].result = <<>>

\* The run ended with the failed host's artifact missing and a peer's written.
C16_Witness ==
    /\ pc = "done"
    /\ written # EmptyMap
    /\ \E h \in Hosts : fut[<<2, h>>].st = "failed" /\ <<2, h>> \in yielded


\* The validation a task of stage st runs on its second argument.
ValidationOf(t) ==
    IF t[1] = 1 THEN validate_inputs(fut[t].args[2])
    ELSE validate_structured_config(fut[t].args[2])

\* The records on stdout that belong to task t, in the order they were printed.
RecordsOf(t) ==
    SelectSeq(stdout, LAMBDA r : r.host = t[2] /\
                                 r.check = (IF t[1] = 1 THEN "inputs" ELSE "structured_config"))

(* C17: in both stages, a task that fails validation has printed every
   validation error record of its host, one per error and in order, by the
   time its future holds the exception; so they are all out when the
   coordinator retrieves the failure and aborts. *)
C17_ErrorsEmittedBeforeRaise ==
    /\ \A t \in TaskIds :
          /\ (fut[t].st = "failed") =>
                /\ ValidationOf(t).failed
                /\ RecordsOf(t) = ValidationOf(t).validation_errors
                /\ Len(RecordsOf(t)) =
                      (IF t[1] = 1 THEN source_vars[t[2]].input_errors
                       ELSE source_vars[t[2]].design_errors)
          /\ (fut[t].st \in {"queued", "running", "ok"}) => RecordsOf(t) = <<>>
    /\ TaskFailureRaised => \E t \in yielded : fut[t].st = "failed" /\ fut[t].exc = exc

\* The coordinator aborted on a host with more than one error record.
C17_Witness ==
    /\ TaskFailureRaised
    /\ \E t \in yielded : fut[t].st = "failed" /\ Len(RecordsOf(t)) > 1


(* C18: a failure while writing a host's artifact is fatal and not retried:
   the write of a host is attempted at most once, the failure aborts the
   run, and after it nothing is retrieved and no artifact is written. *)
C18_WriteFailureFatal ==
    /\ [](/\ pc = "write" => cur[1] \notin DOMAIN written
          /\ exc = "FileNotFoundError" =>
                /\ pc \in {"shutdown", "done"}
                /\ cur = <<>>
                /\ pc = "done" => exit_code = 1)
    /\ [][/\ (pc = "write" /\ ~dir_exists /\ pc' # pc) =>
                /\ pc' = "shutdown"
                /\ exc' = "FileNotFoundError"
                /\ written' = written /\ files' = files
          /\ (exc = "FileNotFoundError" /\ run' = run) =>
                /\ exc' = exc
                /\ yielded' = yielded /\ cur' = cur
                /\ written' = written /\ files' = files]_vars

\* The run ended on a write failure with a peer's result never retrieved.
C18_Witness ==
    /\ pc = "done"
    /\ exc = "FileNotFoundError"
    /\ \E t \in Range(futures) : fut[t].st = "ok" /\ t \notin yielded


\* The structured config and the designed config the host h must get.
OwnStructuredConfig(h) ==
    get_device_structured_config(h, source_vars[h], get_avd_facts(all_hostvars))

NoDuplicates(s) == Len(s) = Cardinality(Range(s))

(* C19: whatever the completion order in the two phases, every task of a
   host works on that host's own data, the content written to H.cfg is the
   configuration rendered from H's own structured config, which was built
   from H's own host variables, and a host gets at most one Stage 1 task,
   one Stage 2 task and one write in a run. *)
C19_OwnConfigOnly ==
    /\ \A h \in Hosts :
          /\ Submitted(<<1, h>>) =>
                /\ fut[<<1, h>>].args = <<h, source_vars[h], get_avd_facts(all_hostvars)>>
                /\ fut[<<1, h>>].st = "ok" =>
                      fut[<<1, h>>].result = <<h, OwnStructuredConfig(h)>>
          /\ Submitted(<<2, h>>) =>
                /\ fut[<<2, h>>].args = <<h, OwnStructuredConfig(h)>>
                /\ fut[<<2, h>>].st = "ok" =>
                      fut[<<2, h>>].result = <<h, get_device_config(OwnStructuredConfig(h))>>
    /\ \A h \in Keys(structured_configs) :
          Get(structured_configs, h) = OwnStructuredConfig(h)
    /\ \A h \in DOMAIN written :
          /\ written[h] = get_device_config(OwnStructuredConfig(h))
          /\ files[ConfigFile(h)] = written[h]
    /\ pc = "write" =>
          /\ cur = <<cur[1], get_device_config(OwnStructuredConfig(cur[1]))>>
          /\ cur[1] \notin DOMAIN written
    /\ NoDuplicates(futures) /\ NoDuplicates(queue) /\ NoDuplicates(ready)
    /\ NoDuplicates([i \in 1..Len(all_hostvars) |-> all_hostvars[i].k])
    /\ NoDuplicates([i \in 1..Len(structured_configs) |-> structured_configs[i].k])
    /\ Range(ready) \cap yielded = {}

\* Two artifacts were written after the Stage 1 results had been collected
\* out of submission order.
C19_Witness ==
    /\ pc = "done"
    /\ exc = ""
    /\ Cardinality(DOMAIN written) > 1
    /\ Len(stdout) = 0
    /\ \E i \in 1..Len(structured_configs) :
          i > 1 /\ structured_configs[i].k = all_hostvars[1].k


(* C20: when the workers are scheduled fairly and every task returns or
   raises, every run ends: with status 0 and the artifact of every device
   host written, or aborted with a non-zero status.  The main process waits
   for ever neither on a result nor at the barrier between the stages,
   whatever the number of workers and of hosts. *)
C20_Terminates ==
    /\ <>(pc = "done")
    /\ (pc = "collect1") ~> (pc \in {"iter2", "shutdown"})
    /\ [](pc = "done" =>
            \/ exc = "" /\ exit_code = 0 /\ DOMAIN written = DeviceHosts
            \/ exc # "" /\ exit_code = 1)

\* A run with more hosts than workers ended with every artifact written.
C20_Witness ==
    /\ pc = "done"
    /\ exit_code = 0
    /\ max_workers < Cardinality(DeviceHosts)
    /\ DOMAIN written = DeviceHosts

====
